---- MODULE Spec2Model ----
(***************************************************************************)
(* Model of the concurrency and net primitives of the repository:          *)
(*   - ArrayBlockingQueue<T, N> (array_blocking_queue.hpp)                  *)
(*   - net::tcp::Socket and Socket::TCPSocketIOTask (socket.cpp)           *)
(*   - TimeTicker (time_ticker.cpp)                                        *)
(***************************************************************************)
EXTENDS Integers, Sequences, FiniteSets, TLC

(* ------------------------------ bounds -------------------------------- *)
\* number of threads that use the queue through all seven operations
NumThreads == 2
\* number of threads of the producer / consumer scenario (push and pop only)
NumLive == 3
\* the template parameter N of the queue under check
Cap == 2
\* elements are drawn from 1..MaxVal
MaxVal == 2
\* the producer / consumer scenario issues MaxPairs pushes and MaxPairs pops
MaxPairs == 3
\* spurious wake-ups in one behaviour of the producer / consumer scenario
MaxSpurious == 1

\* ::socket() returns a descriptor in 0..MaxFd, or -1
MaxFd == 2
\* number of member calls made on the socket after its construction
MaxSockOps == 3

\* number of tick() calls and of cancel() calls made on the ticker
MaxTicks == 3
MaxCancels == 2

Threads == 1..NumThreads
LiveThreads == 1..NumLive
AllThreads == Threads \cup LiveThreads
Values == 1..MaxVal
\* a value-initialised T: the content of the std::array<T, N> slots at
\* construction, of a slot whose element was moved out, and of a caller's
\* output variable before a pop writes it
NoValue == 0
\* the mutex is owned by no thread
NoThread == 0

PushOps == {"push", "try_push_rv", "try_push_cref", "wait_push"}
PopOps == {"pop", "try_pop", "wait_pop"}
TryOps == {"try_push_rv", "try_push_cref", "try_pop"}
WaitOps == {"wait_push", "wait_pop"}
\* calls that construct a std::unique_lock (a blocking mutex.lock())
LockingOps == {"push", "wait_push", "pop", "wait_pop"}

VARIABLES
    queue,      \* _queue: the N slots
    put_idx,    \* _put_idx
    take_idx,   \* _take_idx
    count,      \* _count
    mutex,      \* _mutex: the owning thread, or NoThread
    not_full,   \* _not_full: the threads blocked in its wait set
    not_empty,  \* _not_empty: the threads blocked in its wait set
    pc,         \* each thread's position inside its current call
    op,         \* each thread's current call
    out,        \* each thread's output variable (try_pop / wait_pop's T &ele)
    did,        \* a step of the thread's current call changed _count
    ev,         \* the return this step performed: thread, call, result, output
    fifo,       \* history: the elements accepted and not yet removed, oldest first
    role,       \* producer / consumer scenario: what each thread calls
    pushesLeft, \* producer / consumer scenario: push() calls still to be issued
    popsLeft,   \* producer / consumer scenario: pop() calls still to be issued
    spurious,   \* producer / consumer scenario: spurious wake-ups so far
    sock,       \* the Socket object: "none", "live", "aborted" or "destroyed"
    native_handle,  \* _native_handle
    open,       \* _open
    non_blocking,   \* _non_blocking
    remote_ip,  \* _remote_address->ip()
    heap,       \* the owned descriptors: news and deletes of each so far
    closes,     \* number of ::close() syscalls issued
    sev,        \* what the last socket step did: call, syscall, argument, result
    ioCalls,    \* the recv() / send() calls made: readiness signalled, callback runs
    task,       \* a TCPSocketIOTask: the ready-op set of its last call, the
                \* branch the call took, callback runs
    sops,       \* number of member calls made
    ticker,     \* the TimeTicker object: "none", "live" or "failed" (pipe() failed)
    pipe,       \* bytes written to _pipefds[1] and not read from _pipefds[0]
    tkpc,       \* the thread inside tick(), waiting in select(); NoThread when none
    armed,      \* cancel() called since the last return of tick(): "no", "before"
                \* (no tick() was waiting) or "during" (one was), and by whom
    tev,        \* what the last ticker step did
    ticks,      \* number of tick() calls made
    cancels     \* number of cancel() calls made

qvars == <<queue, put_idx, take_idx, count, mutex, not_full, not_empty, pc, op,
           out, did, ev, fifo>>

lvars == <<role, pushesLeft, popsLeft, spurious>>

svars == <<sock, native_handle, open, non_blocking, remote_ip, heap, closes, sev,
           ioCalls, task, sops>>

tvars == <<ticker, pipe, tkpc, armed, tev, ticks, cancels>>

vars == <<qvars, lvars, svars, tvars>>

(* ------------------------- ArrayBlockingQueue ------------------------- *)

cap == Cap

size == cap - count

empty == count = 0

\* variant of full that lets one more element in
fullOffByOne == count = cap + 1

full == count = cap

\* variant of the index advance that stays on the last slot rather than wrap
NextIdxStuck(i) == IF i + 1 = cap THEN i ELSE i + 1

\* variant of notify_one that wakes nobody
WokenNobody(cv) == {NoThread}

\* ++idx with the wrap to 0 of insert / remove
NextIdx(i) == IF i + 1 = cap THEN 0 ELSE i + 1

\* insert(ele): store at _put_idx, advance it, _count++
insert(e) ==
    /\ queue' = [queue EXCEPT ![put_idx] = e]
    /\ put_idx' = NextIdx(put_idx)
    /\ count' = count + 1
    /\ fifo' = Append(fifo, e)
    /\ UNCHANGED take_idx

\* the element remove() returns
removed == queue[take_idx]

\* variant of remove() that leaves _take_idx where it is
removeInPlace ==
    /\ queue' = [queue EXCEPT ![take_idx] = NoValue]
    /\ count' = count - 1
    /\ fifo' = IF fifo = <<>> THEN fifo ELSE Tail(fifo)
    /\ UNCHANGED <<put_idx, take_idx>>

\* remove(): move the element out of the slot at _take_idx, advance it, _count--
remove ==
    /\ queue' = [queue EXCEPT ![take_idx] = NoValue]
    /\ take_idx' = NextIdx(take_idx)
    /\ count' = count - 1
    /\ fifo' = IF fifo = <<>> THEN fifo ELSE Tail(fifo)
    /\ UNCHANGED put_idx

\* the buffer, the indices and the count are left alone
SameQueue == UNCHANGED <<queue, put_idx, take_idx, count, fifo>>

\* cv.notify_one(): the threads it can wake (any one waiter; nobody when the
\* wait set is empty)
Woken(cv) == IF cv = {} THEN {NoThread} ELSE cv

NoEvent == [thr |-> NoThread, op |-> "none", ret |-> "none", out |-> NoValue,
            did |-> FALSE]

\* thread t's call is over: its frame is gone
Leave(t) ==
    /\ op' = [op EXCEPT ![t] = "none"]
    /\ out' = [out EXCEPT ![t] = NoValue]
    /\ did' = [did EXCEPT ![t] = FALSE]

\* the return of thread t's call with result r, its output variable holding e
Return(t, r, e) ==
    /\ pc' = [pc EXCEPT ![t] = "idle"]
    /\ ev' = [thr |-> t, op |-> op[t], ret |-> r, out |-> e,
              did |-> did[t] \/ count' # count]
    /\ Leave(t)

\* as Return, after a notify_one() that woke w: w leaves wait() and re-locks
ReturnWaking(t, r, e, w) ==
    /\ pc' = IF w = NoThread
             THEN [pc EXCEPT ![t] = "idle"]
             ELSE [pc EXCEPT ![t] = "idle", ![w] = "lock"]
    /\ ev' = [thr |-> t, op |-> op[t], ret |-> r, out |-> e,
              did |-> did[t] \/ count' # count]
    /\ Leave(t)

\* thread t stays inside its call, at position p
Goto(t, p) ==
    /\ pc' = [pc EXCEPT ![t] = p]
    /\ ev' = NoEvent
    /\ did' = [did EXCEPT ![t] = did[t] \/ count' # count]
    /\ UNCHANGED <<op, out>>

InitQueue ==
    /\ queue = [i \in 0..(cap - 1) |-> NoValue]
    /\ put_idx = 0
    /\ take_idx = 0
    /\ count = 0
    /\ mutex = NoThread
    /\ not_full = {}
    /\ not_empty = {}
    /\ pc = [t \in AllThreads |-> "idle"]
    /\ op = [t \in AllThreads |-> "none"]
    /\ out = [t \in AllThreads |-> NoValue]
    /\ did = [t \in AllThreads |-> FALSE]
    /\ ev = NoEvent
    /\ fifo = <<>>

\* no Socket has been constructed yet
InitSocket ==
    /\ sock = "none"
    /\ native_handle = -1
    /\ open = FALSE
    /\ non_blocking = FALSE
    /\ remote_ip = ""
    /\ heap = [protocol |-> [news |-> 0, deletes |-> 0],
               remote_address |-> [news |-> 0, deletes |-> 0]]
    /\ closes = 0
    /\ sev = [op |-> "none", syscall |-> "none", n |-> 0, fd |-> -1, arg |-> "none",
              ret |-> 0, raised |-> FALSE]
    /\ ioCalls = <<>>
    /\ task = [ops |-> {}, branch |-> "none", invoked |-> 0]
    /\ sops = 0

NotArmed == [when |-> "no", by |-> NoThread]

NoTickerEvent == [op |-> "none", thr |-> NoThread, select |-> 0, ret |-> "none",
                  armed |-> NotArmed]

\* no TimeTicker has been constructed yet
InitTicker ==
    /\ ticker = "none"
    /\ pipe = 0
    /\ tkpc = NoThread
    /\ armed = NotArmed
    /\ tev = NoTickerEvent
    /\ ticks = 0
    /\ cancels = 0

Init ==
    /\ InitQueue
    /\ InitSocket
    /\ InitTicker
    /\ role = [t \in AllThreads |-> "any"]
    /\ pushesLeft = 0
    /\ popsLeft = 0
    /\ spurious = 0

\* push / wait_push / pop / wait_pop begin with std::unique_lock lock(_mutex).
\* Locking a std::mutex the calling thread already owns is undefined: the
\* builds either never return from lock() or throw std::system_error.
CallLocking(t, o) ==
    /\ o \in LockingOps
    /\ pc[t] = "idle"
    /\ IF mutex = t
       THEN \/ /\ pc' = [pc EXCEPT ![t] = "deadlock"]
               /\ op' = [op EXCEPT ![t] = o]
               /\ ev' = NoEvent
            \/ /\ ev' = [thr |-> t, op |-> o, ret |-> "error", out |-> NoValue,
                         did |-> FALSE]
               /\ UNCHANGED <<pc, op>>
       ELSE /\ pc' = [pc EXCEPT ![t] = "lock"]
            /\ op' = [op EXCEPT ![t] = o]
            /\ ev' = NoEvent
    /\ UNCHANGED <<mutex, not_full, not_empty, out, did>>
    /\ SameQueue

\* variant of the try_ entry that waits for a held mutex (lock() where the
\* code has try_lock())
CallTryBlocking(t, o) ==
    /\ o \in TryOps
    /\ pc[t] = "idle"
    /\ mutex # t
    /\ pc' = [pc EXCEPT ![t] = "lock"]
    /\ op' = [op EXCEPT ![t] = o]
    /\ ev' = NoEvent
    /\ UNCHANGED <<mutex, not_full, not_empty, out, did>>
    /\ SameQueue

\* try_push / try_pop begin with _mutex.try_lock(): it fails at once when the
\* mutex is held (by any thread)
CallTry(t, o) ==
    /\ o \in TryOps
    /\ pc[t] = "idle"
    /\ IF mutex = NoThread
       THEN /\ mutex' = t
            /\ pc' = [pc EXCEPT ![t] = "cs"]
            /\ op' = [op EXCEPT ![t] = o]
            /\ ev' = NoEvent
       ELSE /\ ev' = [thr |-> t, op |-> o, ret |-> "false", out |-> NoValue,
                      did |-> FALSE]
            /\ UNCHANGED <<mutex, pc, op>>
    /\ UNCHANGED <<not_full, not_empty, out, did>>
    /\ SameQueue

\* mutex.lock() returns: in the unique_lock constructor, or re-locking when a
\* condition-variable wait has ended
Lock(t) ==
    /\ pc[t] = "lock"
    /\ mutex = NoThread
    /\ mutex' = t
    /\ SameQueue
    /\ Goto(t, "cs")
    /\ UNCHANGED <<not_full, not_empty>>

\* push(T&&) and push(const T&), v the value of the referenced element:
\* wait while full, insert, unlock, then notify
PushCS(t, v) ==
    /\ pc[t] = "cs" /\ op[t] = "push" /\ mutex = t
    /\ mutex' = NoThread
    /\ IF full
       THEN /\ not_full' = not_full \cup {t}
            /\ SameQueue
            /\ Goto(t, "wait")
       ELSE /\ insert(v)
            /\ Goto(t, "notify")
            /\ UNCHANGED not_full
    /\ UNCHANGED not_empty

\* try_push(T&&): "if (_mutex.try_lock() && !full())": when the lock was taken
\* and the queue is full the function returns false past the only unlock().
\* Otherwise insert, unlock, notify_one and return true (one step: what the
\* late notify can wake, SpuriousWakeup wakes as well).
TryPushRvCS(t, v) ==
    /\ pc[t] = "cs" /\ op[t] = "try_push_rv" /\ mutex = t
    /\ IF full
       THEN /\ UNCHANGED <<mutex, not_empty>>
            /\ SameQueue
            /\ Return(t, "false", NoValue)
       ELSE /\ insert(v)
            /\ mutex' = NoThread
            /\ \E w \in Woken(not_empty) :
                 /\ not_empty' = not_empty \ {w}
                 /\ ReturnWaking(t, "true", NoValue, w)
    /\ UNCHANGED not_full

\* try_push(const T&): unlocks on the full path as well
TryPushCrefCS(t, v) ==
    /\ pc[t] = "cs" /\ op[t] = "try_push_cref" /\ mutex = t
    /\ mutex' = NoThread
    /\ IF full
       THEN /\ UNCHANGED not_empty
            /\ SameQueue
            /\ Return(t, "false", NoValue)
       ELSE /\ insert(v)
            /\ \E w \in Woken(not_empty) :
                 /\ not_empty' = not_empty \ {w}
                 /\ ReturnWaking(t, "true", NoValue, w)
    /\ UNCHANGED not_full

\* variant of wait_push that returns true whatever wait_for returned
WaitPushCSAlwaysTrue(t, v) ==
    /\ pc[t] = "cs" /\ op[t] = "wait_push" /\ mutex = t
    /\ mutex' = NoThread
    /\ IF ~full
       THEN /\ insert(v)
            /\ \E w \in Woken(not_empty) :
                 /\ not_empty' = not_empty \ {w}
                 /\ ReturnWaking(t, "true", NoValue, w)
            /\ UNCHANGED not_full
       ELSE /\ SameQueue
            /\ UNCHANGED not_empty
            /\ \/ /\ Return(t, "true", NoValue)
                  /\ UNCHANGED not_full
               \/ /\ not_full' = not_full \cup {t}
                  /\ Goto(t, "wait")

\* wait_push (both overloads): wait_for(lock, d, !full()); insert and notify
\* under the lock when it returned true. wait_for returns the predicate once
\* its deadline has passed (whatever ended the wait), and waits otherwise.
WaitPushCS(t, v) ==
    /\ pc[t] = "cs" /\ op[t] = "wait_push" /\ mutex = t
    /\ mutex' = NoThread
    /\ IF ~full
       THEN /\ insert(v)
            /\ \E w \in Woken(not_empty) :
                 /\ not_empty' = not_empty \ {w}
                 /\ ReturnWaking(t, "true", NoValue, w)
            /\ UNCHANGED not_full
       ELSE /\ SameQueue
            /\ UNCHANGED not_empty
            /\ \/ /\ Return(t, "false", NoValue)
                  /\ UNCHANGED not_full
               \/ /\ not_full' = not_full \cup {t}
                  /\ Goto(t, "wait")

\* pop(): wait while empty, remove, notify under the lock, return the element
PopCS(t) ==
    /\ pc[t] = "cs" /\ op[t] = "pop" /\ mutex = t
    /\ mutex' = NoThread
    /\ IF empty
       THEN /\ not_empty' = not_empty \cup {t}
            /\ SameQueue
            /\ Goto(t, "wait")
            /\ UNCHANGED not_full
       ELSE /\ remove
            /\ \E w \in Woken(not_full) :
                 /\ not_full' = not_full \ {w}
                 /\ ReturnWaking(t, "value", removed, w)
            /\ UNCHANGED not_empty

\* try_pop(T&): unlock and return false when empty; else remove into the output
\* argument, unlock, notify_one and return true
TryPopCS(t) ==
    /\ pc[t] = "cs" /\ op[t] = "try_pop" /\ mutex = t
    /\ mutex' = NoThread
    /\ IF empty
       THEN /\ UNCHANGED not_full
            /\ SameQueue
            /\ Return(t, "false", out[t])
       ELSE /\ remove
            /\ \E w \in Woken(not_full) :
                 /\ not_full' = not_full \ {w}
                 /\ ReturnWaking(t, "true", removed, w)
    /\ UNCHANGED not_empty

\* wait_pop: wait_for(lock, d, !empty()); remove and notify under the lock when
\* it returned true
WaitPopCS(t) ==
    /\ pc[t] = "cs" /\ op[t] = "wait_pop" /\ mutex = t
    /\ mutex' = NoThread
    /\ IF ~empty
       THEN /\ remove
            /\ \E w \in Woken(not_full) :
                 /\ not_full' = not_full \ {w}
                 /\ ReturnWaking(t, "true", removed, w)
            /\ UNCHANGED not_empty
       ELSE /\ SameQueue
            /\ UNCHANGED not_full
            /\ \/ /\ Return(t, "false", out[t])
                  /\ UNCHANGED not_empty
               \/ /\ not_empty' = not_empty \cup {t}
                  /\ Goto(t, "wait")

\* the notify_one() that push issues after the unlock, and its return
Notify(t) ==
    /\ pc[t] = "notify" /\ op[t] = "push"
    /\ SameQueue
    /\ \E w \in Woken(not_empty) :
         /\ not_empty' = not_empty \ {w}
         /\ ReturnWaking(t, "void", NoValue, w)
    /\ UNCHANGED <<mutex, not_full>>

\* a condition-variable wait ends without a notify: a spurious wake-up, or
\* the deadline of a wait_for
SpuriousWakeup(t) ==
    /\ pc[t] = "wait"
    /\ SameQueue
    /\ Goto(t, "lock")
    /\ not_full' = not_full \ {t}
    /\ not_empty' = not_empty \ {t}
    /\ UNCHANGED mutex

\* all seven operations, called by any thread at any time
Next ==
    \E t \in Threads :
        \/ CallLocking(t, "push") /\ UNCHANGED <<lvars, svars, tvars>>
        \/ CallLocking(t, "wait_push") /\ UNCHANGED <<lvars, svars, tvars>>
        \/ CallTry(t, "try_push_rv") /\ UNCHANGED <<lvars, svars, tvars>>
        \/ CallTry(t, "try_push_cref") /\ UNCHANGED <<lvars, svars, tvars>>
        \/ CallLocking(t, "pop") /\ UNCHANGED <<lvars, svars, tvars>>
        \/ CallLocking(t, "wait_pop") /\ UNCHANGED <<lvars, svars, tvars>>
        \/ CallTry(t, "try_pop") /\ UNCHANGED <<lvars, svars, tvars>>
        \/ Lock(t) /\ UNCHANGED <<lvars, svars, tvars>>
        \/ \E v \in Values : PushCS(t, v) /\ UNCHANGED <<lvars, svars, tvars>>
        \/ \E v \in Values : TryPushRvCS(t, v) /\ UNCHANGED <<lvars, svars, tvars>>
        \/ \E v \in Values : TryPushCrefCS(t, v) /\ UNCHANGED <<lvars, svars, tvars>>
        \/ \E v \in Values : WaitPushCS(t, v) /\ UNCHANGED <<lvars, svars, tvars>>
        \/ PopCS(t) /\ UNCHANGED <<lvars, svars, tvars>>
        \/ TryPopCS(t) /\ UNCHANGED <<lvars, svars, tvars>>
        \/ WaitPopCS(t) /\ UNCHANGED <<lvars, svars, tvars>>
        \/ Notify(t) /\ UNCHANGED <<lvars, svars, tvars>>
        \/ SpuriousWakeup(t) /\ UNCHANGED <<lvars, svars, tvars>>

Spec == Init /\ [][Next]_vars

(* ----------------- producer / consumer scenario (push, pop) ------------ *)

\* every thread of the scenario is a producer or a consumer, with at least one
\* of each; MaxPairs pushes and MaxPairs pops are to be issued
InitLive ==
    /\ InitQueue
    /\ InitSocket
    /\ InitTicker
    /\ role \in [AllThreads -> {"producer", "consumer", "none"}]
    /\ \A t \in AllThreads : role[t] = "none" <=> t \notin LiveThreads
    /\ \E t \in LiveThreads : role[t] = "producer"
    /\ \E t \in LiveThreads : role[t] = "consumer"
    /\ pushesLeft = MaxPairs
    /\ popsLeft = MaxPairs
    /\ spurious = 0

\* blocking and waking do not depend on the elements: every push of the
\* scenario passes the same one
LiveValue == CHOOSE v \in Values : TRUE

LivePush(t) ==
    /\ role[t] = "producer"
    /\ pushesLeft > 0
    /\ pushesLeft' = pushesLeft - 1
    /\ CallLocking(t, "push")
    /\ UNCHANGED <<role, popsLeft, spurious, svars, tvars>>

LivePop(t) ==
    /\ role[t] = "consumer"
    /\ popsLeft > 0
    /\ popsLeft' = popsLeft - 1
    /\ CallLocking(t, "pop")
    /\ UNCHANGED <<role, pushesLeft, spurious, svars, tvars>>

LiveSpurious(t) ==
    /\ spurious < MaxSpurious
    /\ spurious' = spurious + 1
    /\ SpuriousWakeup(t)
    /\ UNCHANGED <<role, pushesLeft, popsLeft, svars, tvars>>

NextLive ==
    \E t \in LiveThreads :
        \/ LivePush(t)
        \/ LivePop(t)
        \/ Lock(t) /\ UNCHANGED <<lvars, svars, tvars>>
        \/ PushCS(t, LiveValue) /\ UNCHANGED <<lvars, svars, tvars>>
        \/ PopCS(t) /\ UNCHANGED <<lvars, svars, tvars>>
        \/ Notify(t) /\ UNCHANGED <<lvars, svars, tvars>>
        \/ LiveSpurious(t)

\* fair scheduling: a step that can be taken is eventually taken
SpecLive == InitLive /\ [][NextLive]_vars /\ WF_vars(NextLive)

(* ------------------------ properties of the queue ---------------------- *)

TryPushOps == {"try_push_rv", "try_push_cref"}

\* the elements held, oldest first, read off the ring from _take_idx
RingContents == [k \in 1..count |-> queue[(take_idx + k - 1) % cap]]

\* C1: when a thread's try_push on the full queue has returned false (nobody
\* else using the queue), the pop it calls next can take the mutex (and so
\* return the oldest element and make room for the next push)
TryPushFullThenPop ==
    [][\A t \in Threads :
         ( /\ ev.thr = t /\ ev.op \in TryPushOps /\ ev.ret = "false"
           /\ full
           /\ \A u \in Threads : pc[u] = "idle"
           /\ \/ op'[t] = "pop"
              \/ ev'.thr = t /\ ev'.op = "pop" )
         => (pc'[t] = "lock" /\ mutex' = NoThread)]_vars

\* C2: the elements leave in the order they were inserted: the ring read from
\* _take_idx holds the inserted, not yet removed elements oldest first, and
\* every removal hands out the oldest of them, whichever thread and operation
\* removes and wherever the indices are
FifoOrder ==
    /\ [](RingContents = fifo)
    /\ [][count' < count =>
            /\ fifo # <<>>
            /\ ev'.op \in PopOps
            /\ ev'.out = Head(fifo)
            /\ fifo' = Tail(fifo)]_vars

\* a removal from the full queue whose oldest element was on the last slot:
\* the elements left behind lie across the wrap
FifoWrapped ==
    /\ ev.op \in PopOps /\ ev.did
    /\ take_idx = 0 /\ count = cap - 1
    /\ ev.out # queue[take_idx]

\* C3: 0 <= _count <= N, and _put_idx and _take_idx are in [0, N)
CountAndIndicesInRange ==
    /\ count \in 0..cap
    /\ put_idx \in 0..(cap - 1)
    /\ take_idx \in 0..(cap - 1)

\* the full queue with both indices past the start of the buffer
FullAndWrapped == full /\ put_idx = take_idx /\ take_idx # 0 /\ ev.did

\* C4: with as many pushes as pops and fair scheduling, every push and every
\* pop that is called returns
PushPopComplete ==
    \A t \in LiveThreads : (pc[t] # "idle") ~> (pc[t] = "idle")

\* a consumer waits on the empty queue while a producer has inserted and is
\* about to notify
ConsumerWaitsForProducer ==
    \E c, p \in LiveThreads :
        /\ op[c] = "pop" /\ pc[c] = "wait" /\ c \in not_empty
        /\ op[p] = "push" /\ pc[p] = "notify"

\* C5: size() is the number of elements held
SizeIsCount == size = count

\* C6: wait_push / wait_pop return true exactly when the call inserted /
\* removed its element; when they return false the call has not changed the
\* queue, and either way the caller does not hold the mutex
WaitResultTellsEffect ==
    /\ []((ev.op \in WaitOps /\ ev.ret \in {"true", "false"}) =>
            /\ (ev.ret = "true") <=> ev.did
            /\ mutex # ev.thr)
    /\ [][(ev'.op \in WaitOps /\ ev'.ret = "false") =>
            UNCHANGED <<queue, put_idx, take_idx, count>>]_vars
    /\ [][(ev'.op \in WaitOps /\ ev'.ret = "true") =>
            IF ev'.op = "wait_push"
            THEN ~full /\ count' = count + 1
            ELSE ~empty /\ count' = count - 1 /\ ev'.out = Head(fifo)]_vars

\* a wait_push gave up on the full queue
WaitPushTimedOut == ev.op = "wait_push" /\ ev.ret = "false" /\ full

\* C7: try_push / try_pop never wait: a call is either over at once or holds
\* the mutex; it returns true exactly when try_lock succeeded and the queue
\* was not full / not empty, having inserted / removed one element; a false
\* return has left the queue alone, and try_pop has then not written its
\* output
TryNeverBlocks ==
    /\ [](\A t \in Threads : op[t] \in TryOps => (pc[t] = "cs" /\ mutex = t))
    /\ []((ev.op \in TryOps) =>
            /\ ev.ret \in {"true", "false"}
            /\ (ev.ret = "true") <=> ev.did
            /\ (ev.op = "try_pop" /\ ev.ret = "false") => ev.out = NoValue)
    /\ [][\A t \in Threads : (ev'.thr = t /\ ev'.op \in TryOps) =>
            IF ev'.ret = "true"
            THEN /\ pc[t] = "cs" /\ mutex = t
                 /\ IF ev'.op \in TryPushOps
                    THEN ~full /\ count' = count + 1
                    ELSE ~empty /\ count' = count - 1 /\ ev'.out = Head(fifo)
            ELSE /\ UNCHANGED <<queue, put_idx, take_idx, count>>
                 /\ \/ pc[t] = "idle" /\ mutex # NoThread
                    \/ /\ pc[t] = "cs"
                       /\ IF ev'.op \in TryPushOps THEN full ELSE empty]_vars

\* a try_push failed on a queue with room, the mutex being held by another
\* thread
TryPushLostTheLock ==
    /\ ev.op \in TryPushOps /\ ev.ret = "false" /\ ~full
    /\ mutex \notin {NoThread, ev.thr}

\* C17: every queue operation has released the mutex when it returns: when
\* no thread is inside a queue operation the mutex is free, and a thread
\* whose try_push or try_pop has returned false does not hold it
MutexFreeWhenIdle ==
    /\ (\A t \in Threads : pc[t] = "idle") => mutex = NoThread
    /\ (ev.op \in TryOps /\ ev.ret = "false") => mutex # ev.thr

\* C20: _put_idx = (_take_idx + _count) mod N; the elements held are the
\* _count slots from _take_idx on, wrapping, oldest first; an insert
\* advances _put_idx and _count and nothing else, a remove advances
\* _take_idx, decrements _count and leaves _put_idx
RingInvariant ==
    /\ [](put_idx = (take_idx + count) % cap)
    /\ [](/\ Len(fifo) = count
          /\ \A k \in 1..count : queue[(take_idx + k - 1) % cap] = fifo[k])
    /\ [][count' \in {count - 1, count, count + 1}]_vars
    /\ [][count' = count + 1 =>
            /\ put_idx' = (put_idx + 1) % cap
            /\ take_idx' = take_idx
            /\ \A i \in 0..(cap - 1) : i # put_idx => queue'[i] = queue[i]]_vars
    /\ [][count' = count - 1 =>
            /\ take_idx' = (take_idx + 1) % cap
            /\ put_idx' = put_idx]_vars
    /\ [][count' = count => UNCHANGED <<queue, put_idx, take_idx>>]_vars

\* one element on the last slot of the buffer, _put_idx wrapped to the start
LastSlotLive ==
    /\ ev.did /\ ev.op \in PushOps
    /\ count = 1 /\ take_idx = cap - 1 /\ put_idx = 0

(* ------------------------ net::tcp::Socket ----------------------------- *)

SHUT_RD == 0
SHUT_WR == 1
SHUT_RDWR == 2

\* Selectable::OP, and the ready-op sets a reactor can pass
OPs == {"READ", "WRITE", "EXCEPT", "REMOTE_CLOSE"}
OPCollection == SUBSET OPs

\* the values _open can hold when the constructor returns: socket.cpp never
\* assigns true to it, its initial value comes with the member's declaration
InitialOpen == BOOLEAN

\* what a step that issues no syscall reports
NoSyscall(o) ==
    [op |-> o, syscall |-> "none", n |-> 0, fd |-> -1, arg |-> "none", ret |-> 0,
     raised |-> FALSE]

\* a member call on the constructed socket
SockCall ==
    /\ sock = "live"
    /\ sops < MaxSockOps
    /\ sops' = sops + 1

\* Socket(protocol, remote): new ProtocolV4/V6, new Address, ::socket(),
\* assert(_native_handle != -1), non_blocking(true)
Construct(fd, ip, o) ==
    /\ sock = "none"
    /\ heap' = [protocol |-> [news |-> 1, deletes |-> 0],
                remote_address |-> [news |-> 1, deletes |-> 0]]
    /\ native_handle' = fd
    /\ remote_ip' = ip
    /\ open' = o
    /\ IF fd = -1
       THEN \* the assert aborts the process, or is compiled out (NDEBUG)
            \/ /\ sock' = "aborted"
               /\ UNCHANGED non_blocking
            \/ /\ sock' = "live"
               /\ non_blocking' = TRUE
       ELSE /\ sock' = "live"
            /\ non_blocking' = TRUE
    /\ sev' = [op |-> "Socket", syscall |-> "socket", n |-> 1, fd |-> -1,
               arg |-> "none", ret |-> fd, raised |-> FALSE]
    /\ UNCHANGED <<closes, ioCalls, task, sops>>

\* ~Socket(): delete _remote_address
Destroy ==
    /\ sock = "live"
    /\ sock' = "destroyed"
    /\ heap' = [heap EXCEPT !.remote_address.deletes = @ + 1]
    /\ sev' = NoSyscall("~Socket")
    /\ UNCHANGED <<native_handle, open, non_blocking, remote_ip, closes, ioCalls,
                   task, sops>>

\* non_blocking(bool): store the flag, Posix::non_blocking(handle, flag)
NonBlocking(b) ==
    /\ SockCall
    /\ non_blocking' = b
    /\ sev' = [op |-> "non_blocking", syscall |-> "fcntl", n |-> 1,
               fd |-> native_handle, arg |-> "none", ret |-> 0, raised |-> FALSE]
    /\ UNCHANGED <<sock, native_handle, open, remote_ip, heap, closes, ioCalls, task>>

\* recv(data, size, executor, cb) and send(...): the bodies are empty: nothing
\* is registered with the executor and cb is dropped
RecvSend(kind) ==
    /\ SockCall
    /\ kind \in {"recv", "send"}
    /\ ioCalls' = Append(ioCalls, [kind |-> kind, signalled |-> FALSE, invoked |-> 0])
    /\ sev' = NoSyscall(kind)
    /\ UNCHANGED <<sock, native_handle, open, non_blocking, remote_ip, heap, closes,
                   task>>

\* the operation a recv() / send() call waits for
InterestOf(kind) == IF kind = "recv" THEN "READ" ELSE "WRITE"

\* variant of the dispatch that tests READ and WRITE before the two
\* exceptional conditions
TaskBranchReadFirst(ops) ==
    IF "READ" \in ops THEN "READ"
    ELSE IF "WRITE" \in ops THEN "WRITE"
    ELSE IF "EXCEPT" \in ops THEN "EXCEPT"
    ELSE IF "REMOTE_CLOSE" \in ops THEN "REMOTE_CLOSE"
    ELSE "none"

\* the branch TCPSocketIOTask::operator()(ops) takes
TaskBranch(ops) ==
    IF "EXCEPT" \in ops THEN "EXCEPT"
    ELSE IF "REMOTE_CLOSE" \in ops THEN "REMOTE_CLOSE"
    ELSE IF "READ" \in ops THEN "READ"
    ELSE IF "WRITE" \in ops THEN "WRITE"
    ELSE "none"

\* the number of times a branch of operator() runs _callback: every branch is
\* empty
CallbackRuns(branch) == 0

\* TCPSocketIOTask::interest()
interest == {}

\* the reactor finds the handle ready for ops, the operation call i waits for
\* among them, and invokes the Selectables registered for it: the call
\* registered none
Signal(i, ops) ==
    /\ sock = "live"
    /\ i \in 1..Len(ioCalls)
    /\ ~ioCalls[i].signalled
    /\ InterestOf(ioCalls[i].kind) \in ops
    /\ ioCalls' = [ioCalls EXCEPT ![i].signalled = TRUE]
    /\ sev' = NoSyscall("signal")
    /\ UNCHANGED <<sock, native_handle, open, non_blocking, remote_ip, heap, closes,
                   task, sops>>

\* TCPSocketIOTask::operator()(ops) on a task made with the constructor
TaskCall(ops) ==
    /\ SockCall
    /\ task' = [ops |-> ops, branch |-> TaskBranch(ops),
                invoked |-> task.invoked + CallbackRuns(TaskBranch(ops))]
    /\ sev' = NoSyscall("task")
    /\ UNCHANGED <<sock, native_handle, open, non_blocking, remote_ip, heap, closes,
                   ioCalls>>

\* variant of shutdown() without the upper bound on shut_type
ShutdownNoUpperBound(shut_type) ==
    /\ SockCall
    /\ IF native_handle < 1 \/ shut_type < SHUT_RD
       THEN sev' = [NoSyscall("shutdown") EXCEPT !.arg = ToString(shut_type)]
       ELSE sev' = [op |-> "shutdown", syscall |-> "shutdown", n |-> 1,
                    fd |-> native_handle, arg |-> ToString(shut_type), ret |-> 0,
                    raised |-> FALSE]
    /\ UNCHANGED <<sock, native_handle, open, non_blocking, remote_ip, heap, closes,
                   ioCalls, task>>

\* variant of shutdown() that does nothing on a socket that is not open
ShutdownIfOpen(shut_type) ==
    /\ SockCall
    /\ IF ~open \/ native_handle < 1 \/ shut_type < SHUT_RD \/ shut_type > SHUT_RDWR
       THEN sev' = [NoSyscall("shutdown") EXCEPT !.arg = ToString(shut_type)]
       ELSE sev' = [op |-> "shutdown", syscall |-> "shutdown", n |-> 1,
                    fd |-> native_handle, arg |-> ToString(shut_type), ret |-> 0,
                    raised |-> FALSE]
    /\ UNCHANGED <<sock, native_handle, open, non_blocking, remote_ip, heap, closes,
                   ioCalls, task>>

\* shutdown(shut_type): the result of ::shutdown() is dropped
Shutdown(shut_type) ==
    /\ SockCall
    /\ IF native_handle < 1 \/ shut_type < SHUT_RD \/ shut_type > SHUT_RDWR
       THEN sev' = [NoSyscall("shutdown") EXCEPT !.arg = ToString(shut_type)]
       ELSE sev' = [op |-> "shutdown", syscall |-> "shutdown", n |-> 1,
                    fd |-> native_handle, arg |-> ToString(shut_type), ret |-> 0,
                    raised |-> FALSE]
    /\ UNCHANGED <<sock, native_handle, open, non_blocking, remote_ip, heap, closes,
                   ioCalls, task>>

\* variant of close() that clears _open only once ::close() has succeeded
CloseClearsOnSuccess(res) ==
    /\ SockCall
    /\ IF ~open \/ native_handle < 1
       THEN /\ sev' = NoSyscall("close")
            /\ UNCHANGED <<open, closes>>
       ELSE /\ open' = (res # 0)
            /\ closes' = closes + 1
            /\ sev' = [op |-> "close", syscall |-> "close", n |-> 1,
                       fd |-> native_handle, arg |-> "none", ret |-> res,
                       raised |-> res # 0]
    /\ UNCHANGED <<sock, native_handle, non_blocking, remote_ip, heap, ioCalls, task>>

\* close(): res is the result of ::close()
Close(res) ==
    /\ SockCall
    /\ IF ~open \/ native_handle < 1
       THEN /\ sev' = NoSyscall("close")
            /\ UNCHANGED <<open, closes>>
       ELSE /\ open' = FALSE
            /\ closes' = closes + 1
            /\ sev' = [op |-> "close", syscall |-> "close", n |-> 1,
                       fd |-> native_handle, arg |-> "none", ret |-> res,
                       raised |-> res # 0]
    /\ UNCHANGED <<sock, native_handle, non_blocking, remote_ip, heap, ioCalls, task>>

\* the results ::connect() can have
ConnectResults == {0, -1}

\* variant of connect() that marks the socket open once ::connect() succeeds
ConnectReopens(ret) ==
    /\ SockCall
    /\ open' = (open \/ ret = 0)
    /\ sev' = [op |-> "connect", syscall |-> "connect", n |-> 1, fd |-> native_handle,
               arg |-> IF remote_ip = "" THEN "INADDR_ANY" ELSE remote_ip,
               ret |-> ret, raised |-> FALSE]
    /\ UNCHANGED <<sock, native_handle, non_blocking, remote_ip, heap, closes,
                   ioCalls, task>>

\* variant of connect() that passes the bound ip on as it is, the empty one
\* as well
ConnectLiteral(ret) ==
    /\ SockCall
    /\ sev' = [op |-> "connect", syscall |-> "connect", n |-> 1, fd |-> native_handle,
               arg |-> remote_ip, ret |-> ret, raised |-> FALSE]
    /\ UNCHANGED <<sock, native_handle, open, non_blocking, remote_ip, heap, closes,
                   ioCalls, task>>

\* connect(): the wildcard address for an empty ip, inet_addr(ip) otherwise;
\* ret is the result of ::connect(), returned as it is
Connect(ret) ==
    /\ SockCall
    /\ sev' = [op |-> "connect", syscall |-> "connect", n |-> 1, fd |-> native_handle,
               arg |-> IF remote_ip = "" THEN "INADDR_ANY" ELSE remote_ip,
               ret |-> ret, raised |-> FALSE]
    /\ UNCHANGED <<sock, native_handle, open, non_blocking, remote_ip, heap, closes,
                   ioCalls, task>>

NextSocket ==
    \/ \E fd \in -1..MaxFd, ip \in {"", "10.0.0.1"}, o \in InitialOpen :
         Construct(fd, ip, o) /\ UNCHANGED <<qvars, lvars, tvars>>
    \/ Destroy /\ UNCHANGED <<qvars, lvars, tvars>>
    \/ \E b \in BOOLEAN : NonBlocking(b) /\ UNCHANGED <<qvars, lvars, tvars>>
    \/ \E k \in {"recv", "send"} : RecvSend(k) /\ UNCHANGED <<qvars, lvars, tvars>>
    \/ \E i \in 1..MaxSockOps, ops \in OPCollection :
         Signal(i, ops) /\ UNCHANGED <<qvars, lvars, tvars>>
    \/ \E ops \in OPCollection : TaskCall(ops) /\ UNCHANGED <<qvars, lvars, tvars>>
    \/ \E k \in (SHUT_RD - 1)..(SHUT_RDWR + 1) :
         Shutdown(k) /\ UNCHANGED <<qvars, lvars, tvars>>
    \/ \E res \in {0, -1} : Close(res) /\ UNCHANGED <<qvars, lvars, tvars>>
    \/ \E ret \in ConnectResults : Connect(ret) /\ UNCHANGED <<qvars, lvars, tvars>>

SpecSocket == Init /\ [][NextSocket]_vars

\* C13: the dispatch of a ready-op set takes exactly the branch of the first
\* of EXCEPT, REMOTE_CLOSE, READ, WRITE that the set holds, and none for the
\* empty set; the READ and WRITE branches are not taken when EXCEPT or
\* REMOTE_CLOSE is in the set
Precedence == <<"EXCEPT", "REMOTE_CLOSE", "READ", "WRITE">>

DispatchPrecedence ==
    /\ task.ops = {} => task.branch = "none"
    /\ task.ops # {} =>
         \E k \in 1..Len(Precedence) :
             /\ task.branch = Precedence[k]
             /\ Precedence[k] \in task.ops
             /\ \A j \in 1..(k - 1) : Precedence[j] \notin task.ops
    /\ task.branch \in {"READ", "WRITE"} =>
         task.ops \cap {"EXCEPT", "REMOTE_CLOSE"} = {}

\* a task was called with peer-close, read and write readiness at once
DispatchedPeerCloseOverReadWrite ==
    /\ sev.op = "task"
    /\ task.ops = {"REMOTE_CLOSE", "READ", "WRITE"}
    /\ task.branch = "REMOTE_CLOSE"

\* the step is a call of the member function o
SockStep(o) == sops' # sops /\ sev'.op = o

\* the shutdown kinds Read, Write and Both, as the events show them
ShutKinds == {ToString(k) : k \in SHUT_RD..SHUT_RDWR}

\* C14: shutdown(kind) issues ::shutdown() only on a valid handle and with a
\* kind among Read, Write, Both; on an invalid handle or with another kind
\* it issues nothing; it never raises and changes no field of the socket
ShutdownOnlyWhenValid ==
    [][SockStep("shutdown") =>
         /\ sev'.n = 1 =>
              /\ sev'.syscall = "shutdown" /\ sev'.fd = native_handle
              /\ native_handle # -1
              /\ sev'.arg \in ShutKinds
         /\ (native_handle = -1 \/ sev'.arg \notin ShutKinds) => sev'.n = 0
         /\ ~sev'.raised
         /\ UNCHANGED <<sock, native_handle, open, non_blocking, remote_ip, heap,
                        closes, ioCalls, task>>]_vars

\* a shutdown with a kind past Both did nothing on a valid handle
ShutdownKindOutOfRange ==
    /\ sev.op = "shutdown" /\ sev.n = 0
    /\ native_handle >= 1 /\ sev.arg = ToString(SHUT_RDWR + 1)

\* C15: once close() has taken effect the open flag is false and no later
\* call makes it true again
ClosedIsTerminal ==
    /\ [](closes >= 1 => ~open)
    /\ [][closes >= 1 => (~open' /\ closes' = closes)]_vars

\* a connect() succeeded after the close() and the socket is still closed
ConnectedAfterClose ==
    /\ closes = 1 /\ ~open
    /\ sev.op = "connect" /\ sev.ret = 0

\* what connect() does whatever the mode: one ::connect() on the handle, to
\* the wildcard address exactly when the bound ip is empty and to the bound
\* ip otherwise, its result returned
ConnectsOnce ==
    /\ sev'.n = 1 /\ sev'.syscall = "connect" /\ sev'.fd = native_handle
    /\ sev'.ret \in ConnectResults /\ ~sev'.raised
    /\ (sev'.arg = "INADDR_ANY") <=> (remote_ip = "")
    /\ remote_ip # "" => sev'.arg = remote_ip

\* C16 as stated: every connect() is one non-blocking ::connect()
ConnectNonBlocking ==
    [][SockStep("connect") => (ConnectsOnce /\ non_blocking)]_vars

\* what holds of connect() in either mode: exactly one ::connect() per call,
\* to the wildcard address exactly when the bound ip is empty, its result
\* returned; the socket is non-blocking from the construction on, until
\* non_blocking(false) is called
ConnectRawResult ==
    /\ [][SockStep("connect") => ConnectsOnce]_vars
    /\ [][(sock = "live" /\ non_blocking /\ ~non_blocking') =>
            sev'.op = "non_blocking"]_vars
    /\ [](sock = "live" /\ sops = 0 => non_blocking)

\* a failing connect() to the wildcard address
ConnectWildcardFailed ==
    /\ sev.op = "connect" /\ sev.ret = -1
    /\ remote_ip = "" /\ sev.arg = "INADDR_ANY"

\* C19: shutdown() and connect() do not look at the open flag: shutdown()
\* issues its syscall exactly when the handle is at least 1 and the kind is
\* Read, Write or Both, connect() always; close() leaves the handle value
\* as it is; so both still issue their syscall on the handle number after
\* the close()
OpenFlagNotConsulted ==
    /\ [][SockStep("shutdown") =>
            ((sev'.n = 1 /\ sev'.fd = native_handle) <=>
             (native_handle >= 1 /\ sev'.arg \in ShutKinds))]_vars
    /\ [][SockStep("connect") =>
            (sev'.n = 1 /\ sev'.fd = native_handle)]_vars
    /\ [][SockStep("close") =>
            /\ native_handle' = native_handle
            /\ sev'.n = 1 => (open /\ ~open')]_vars

\* a shutdown issued its syscall on the handle number of the closed socket
ShutdownAfterClose ==
    /\ closes = 1 /\ ~open
    /\ sev.op = "shutdown" /\ sev.n = 1 /\ sev.fd = native_handle

(* ----------------------------- TimeTicker ------------------------------ *)

\* TimeTicker(), TimeTicker(seconds, microSeconds): pipe(_pipefds); a failing
\* pipe() is thrown as std::runtime_error
NewTicker(pip_ret) ==
    /\ ticker = "none"
    /\ ticker' = IF pip_ret # 0 THEN "failed" ELSE "live"
    /\ tev' = [NoTickerEvent EXCEPT !.op = "TimeTicker",
                                    !.ret = IF pip_ret # 0 THEN "error" ELSE "void"]
    /\ UNCHANGED <<pipe, tkpc, armed, ticks, cancels>>

\* cancel(): write(_pipefds[1], "1", 1), by any thread, also while another
\* thread waits in tick()
Cancel(t) ==
    /\ ticker = "live"
    /\ cancels < MaxCancels
    /\ tkpc # t
    /\ cancels' = cancels + 1
    /\ pipe' = pipe + 1
    /\ armed' = [when |-> IF tkpc # NoThread \/ armed.when = "during"
                          THEN "during" ELSE "before",
                 by |-> t]
    /\ tev' = [NoTickerEvent EXCEPT !.op = "cancel", !.thr = t, !.ret = "void"]
    /\ UNCHANGED <<ticker, tkpc, ticks>>

\* tick() up to the entry of select(): FD_ZERO, FD_SET(_pipefds[0]), copy of
\* _timeout. (One tick() at a time: two concurrent calls would race on the
\* member _readfds.)
TickStart(t) ==
    /\ ticker = "live"
    /\ tkpc = NoThread
    /\ ticks < MaxTicks
    /\ ticks' = ticks + 1
    /\ tkpc' = t
    /\ tev' = NoTickerEvent
    /\ UNCHANGED <<ticker, pipe, armed, cancels>>

\* the read end of the pipe is readable
Readable == pipe > 0

\* what select(_pipefds[0] + 1, &_readfds, NULL, NULL, &timeout) can return:
\* 1 with the descriptor left in _readfds when it is readable, 0 with
\* _readfds cleared once the timeout has passed, -1 when the call fails
SelectResults == {-1} \cup (IF Readable THEN {1} ELSE {0})

\* variant of the rest of tick() without the check of select's result
TickReturnUnchecked(t, ret) ==
    /\ tkpc = t /\ t # NoThread
    /\ ret \in SelectResults
    /\ tkpc' = NoThread
    /\ armed' = NotArmed
    /\ tev' = [op |-> "tick", thr |-> t, select |-> ret,
               ret |-> IF ret # 0 THEN "true" ELSE "false", armed |-> armed]
    /\ UNCHANGED <<ticker, pipe, ticks, cancels>>

\* variant of the rest of tick() that reads the marker off the pipe
TickReturnDraining(t, ret) ==
    /\ tkpc = t /\ t # NoThread
    /\ ret \in SelectResults
    /\ tkpc' = NoThread
    /\ armed' = NotArmed
    /\ pipe' = IF ret = 1 THEN pipe - 1 ELSE pipe
    /\ tev' = [op |-> "tick", thr |-> t, select |-> ret,
               ret |-> IF ret = -1 THEN "error"
                       ELSE IF ret = 1 THEN "true" ELSE "false",
               armed |-> armed]
    /\ UNCHANGED <<ticker, ticks, cancels>>

\* variant of the rest of tick() that reports the readiness of the write end
TickReturnWrongEnd(t, ret) ==
    /\ tkpc = t /\ t # NoThread
    /\ ret \in SelectResults
    /\ tkpc' = NoThread
    /\ armed' = NotArmed
    /\ tev' = [op |-> "tick", thr |-> t, select |-> ret,
               ret |-> IF ret = -1 THEN "error" ELSE "false", armed |-> armed]
    /\ UNCHANGED <<ticker, pipe, ticks, cancels>>

\* the rest of tick(): select() returns ret; -1 is thrown as
\* std::runtime_error, otherwise the result is FD_ISSET(_pipefds[0], &_readfds).
\* Nothing is read from the pipe.
TickReturn(t, ret) ==
    /\ tkpc = t /\ t # NoThread
    /\ ret \in SelectResults
    /\ tkpc' = NoThread
    /\ armed' = NotArmed
    /\ tev' = [op |-> "tick", thr |-> t, select |-> ret,
               ret |-> IF ret = -1 THEN "error"
                       ELSE IF ret = 1 THEN "true" ELSE "false",
               armed |-> armed]
    /\ UNCHANGED <<ticker, pipe, ticks, cancels>>

NextTicker ==
    \/ \E pip_ret \in {0, -1} : NewTicker(pip_ret) /\ UNCHANGED <<qvars, lvars, svars>>
    \/ \E t \in Threads : Cancel(t) /\ UNCHANGED <<qvars, lvars, svars>>
    \/ \E t \in Threads : TickStart(t) /\ UNCHANGED <<qvars, lvars, svars>>
    \/ \E t \in Threads, ret \in {-1, 0, 1} :
         TickReturn(t, ret) /\ UNCHANGED <<qvars, lvars, svars>>

SpecTicker == Init /\ [][NextTicker]_vars

(* ------------------------ properties of the socket --------------------- *)

\* C8: once the reactor has signalled readiness for the operation of a recv()
\* or send() call, the callback given to that call has run exactly once
CallbackOncePerReadyCall ==
    \A i \in 1..Len(ioCalls) : ioCalls[i].signalled => ioCalls[i].invoked = 1

\* C9: close() is idempotent: ::close() is issued at most once on a socket,
\* and a close() that follows the one that reached the syscall issues no
\* syscall, raises nothing and changes nothing
CloseAtMostOnce ==
    /\ [](closes <= 1)
    /\ [][(sops' # sops /\ sev'.op = "close" /\ closes >= 1) =>
            /\ sev'.syscall = "none"
            /\ ~sev'.raised
            /\ UNCHANGED <<sock, native_handle, open, non_blocking, remote_ip, heap,
                           closes>>]_vars

\* a close() that issued no syscall, on a valid handle, after a close() that
\* reached ::close()
ClosedTwice ==
    /\ closes = 1 /\ native_handle >= 1
    /\ sev.op = "close" /\ sev.syscall = "none"

\* C10: once the socket is destroyed, the protocol descriptor and the remote
\* address descriptor it allocated have each been released exactly once
DescriptorsReleasedOnce ==
    sock = "destroyed" =>
        /\ heap.protocol.deletes = 1
        /\ heap.remote_address.deletes = 1

(* ------------------------ properties of the ticker --------------------- *)

\* a tick() that returned after a cancel() made before it started (no other
\* tick() between the two) or while it was waiting
TickAfterCancel == tev.op = "tick" /\ tev.armed.when # "no"

\* C11 as stated: a tick() preceded or overlapped by a cancel() returns true
CancelledTickReturnsTrue == TickAfterCancel => tev.ret = "true"

\* C11: a tick() preceded (no tick() in between) or overlapped by a cancel()
\* of any thread does not time out: it returns true, unless its select()
\* call fails, which is raised as an error
CancelledTickNeverTimesOut ==
    TickAfterCancel =>
        /\ tev.ret # "false"
        /\ tev.select # -1 => tev.ret = "true"

\* a tick() returned true on the cancel() another thread made while it waited
CancelledWhileWaiting ==
    /\ TickAfterCancel /\ tev.ret = "true"
    /\ tev.armed.when = "during" /\ tev.armed.by # tev.thr

\* C12: tick() returns true only when a cancel() has written to the pipe;
\* without any cancel() a tick() whose select() does not fail returns false;
\* a failing select() is raised as an error, and only that is
TickTrueOnlyIfCancelled ==
    tev.op = "tick" =>
        /\ tev.ret = "true" => (cancels > 0 /\ Readable)
        /\ (cancels = 0 /\ tev.select # -1) => tev.ret = "false"
        /\ tev.select = -1 <=> tev.ret = "error"

\* a second tick() timed out on a ticker that was never cancelled
TimedOutTwice == tev.op = "tick" /\ tev.ret = "false" /\ cancels = 0 /\ ticks > 1

\* C18 as stated: once cancel() has been called every tick() returns true
EveryLaterTickTrue == (tev.op = "tick" /\ cancels > 0) => tev.ret = "true"

\* C18: cancellation is sticky: tick() never takes the marker off the pipe
\* (the pipe holds one byte per cancel() made), so once cancel() has been
\* called every tick() whose select() does not fail returns true, and none
\* times out
CancelIsSticky ==
    /\ [](pipe = cancels)
    /\ []((tev.op = "tick" /\ cancels > 0) =>
            /\ tev.ret # "false"
            /\ tev.select # -1 => tev.ret = "true")
    /\ [][pipe' >= pipe]_vars

\* a tick() returned true on the one cancel() an earlier tick() had already
\* reported
TrueAgainWithoutCancel ==
    /\ tev.op = "tick" /\ tev.ret = "true"
    /\ tev.armed.when = "no" /\ cancels = 1 /\ ticks > 1

====
